---- MODULE Spec2Model ----
(***************************************************************************)
(* Model of the multi-corpus retrieval core of med_trial_rag:              *)
(*   - utils/fusion.py        reciprocal_rank_fusion (a pure function)     *)
(*   - retrieval/faiss_s3.py  FaissS3Retriever (load / search / close)     *)
(*   - api/server.py          the lazy initialisation and the handlers     *)
(*                                                                         *)
(* Python dicts are functions whose DOMAIN is the set of keys present; a   *)
(* dict whose iteration order matters (self.indices, manifest.corpora) is  *)
(* kept as a sequence of entries in insertion order.                       *)
(*                                                                         *)
(* Fused scores are the exact rationals sum 1/(k+rank); a score is kept as *)
(* its numerator over the fixed denominator ScoreDen(k), so that sums and  *)
(* comparisons are exact.  (The code adds IEEE doubles; rounding of the    *)
(* last bit is not modelled.)                                              *)
(***************************************************************************)
EXTENDS Integers, Sequences, FiniteSets, TLC

VARIABLES
    \* ---- one call of reciprocal_rank_fusion --------------------------
    fuse_lists,     \* argument ranked_lists
    fuse_k,         \* argument k
    fuse_out,       \* the returned list
    fuse_pc,        \* "call" before the call, "done" after it
    \* ---- one FaissS3Retriever object -----------------------------------
    manifest,       \* self.manifest (None or the last validated manifest)
    indices,        \* self.indices, in insertion order
    id_maps,        \* self.id_maps
    doc_maps,       \* self.doc_maps
    loaded,         \* self.loaded
    corpus_counts,  \* self.corpus_counts
    ret,            \* outcome of the last call on the facade
    hist,           \* history of the calls made on the facade (ghost)
    \* ---- one process of api/server.py ----------------------------------
    retriever,      \* global retriever: None or the fields of the object
    config,         \* global config: None or the Config
    _initialized,   \* global _initialized
    rag_bucket,     \* whether RAG_BUCKET is set in the environment
    phase,          \* "boot", then "uvicorn" or "lambda", then "down"
    resp,           \* the response to the last request
    calls,          \* counters of requests and loads (ghost)
    \* ---- one load of a corpus from files written line by line -----------
    parse_lines,    \* the lines of the jsonl file
    parse_out,      \* what _load_corpus left and how it ended
    parse_pc,       \* "write" while the file is written, then "ids" or "docs"
    \* ---- one object in the bucket and its copy on the local disk --------
    dl_remote,      \* the object under the key: None or [body, parts]
    dl_local,       \* the file at local_path: None or [body]
    dl_ret,         \* the last call of download_if_needed and the one before (ghost)
    \* ---- one facade used by a searching and a closing thread ------------
    rc_self,        \* the fields of the facade
    rc_search,      \* the thread in search(): its position and its locals
    rc_close,       \* the thread in close(): its position
    \* ---- the indexers' update of the manifest ---------------------------
    mf_stored,      \* the object under the manifest key, None before the first upload
    mf_tmp,         \* host -> the content of /tmp/manifest.json on that host
    mf_proc,        \* corpus -> the indexer of that corpus: position and locals
    \* ---- one call of chunk_text ------------------------------------------
    ck_args,        \* text, max_chars, overlap_chars
    ck_loc,         \* position, start, and (ghost) start one iteration before
    ck_chunks       \* the local list chunks

fuseVars == <<fuse_lists, fuse_k, fuse_out, fuse_pc>>
facade == <<manifest, indices, id_maps, doc_maps, loaded, corpus_counts>>
serverVars == <<retriever, config, _initialized, rag_bucket, phase, resp, calls>>
parseVars == <<parse_lines, parse_out, parse_pc>>
dlVars == <<dl_remote, dl_local, dl_ret>>
raceVars == <<rc_self, rc_search, rc_close>>
mfVars == <<mf_stored, mf_tmp, mf_proc>>
ckVars == <<ck_args, ck_loc, ck_chunks>>
auxVars == <<parseVars, dlVars, raceVars, mfVars, ckVars>>
coreVars == <<fuseVars, facade, ret, hist, serverVars>>
notParse == <<coreVars, dlVars, raceVars, mfVars, ckVars>>
notDl == <<coreVars, parseVars, raceVars, mfVars, ckVars>>
notRace == <<coreVars, parseVars, dlVars, mfVars, ckVars>>
notMf == <<coreVars, parseVars, dlVars, raceVars, ckVars>>
notCk == <<coreVars, parseVars, dlVars, raceVars, mfVars>>
vars == <<fuse_lists, fuse_k, fuse_out, fuse_pc,
          manifest, indices, id_maps, doc_maps, loaded, corpus_counts, ret, hist,
          retriever, config, _initialized, rag_bucket, phase, resp, calls,
          parse_lines, parse_out, parse_pc,
          dl_remote, dl_local, dl_ret,
          rc_self, rc_search, rc_close,
          mf_stored, mf_tmp, mf_proc,
          ck_args, ck_loc, ck_chunks>>

(***************************************************************************)
(* Bounds of the model.                                                    *)
(***************************************************************************)
\* total number of items over all input lists of one fusion call
MaxTotal == 4
\* number of input lists of one fusion call
MaxLists == 2
\* largest top_k a search is called with
MaxTopK == 3

\* default of the parameter k of reciprocal_rank_fusion
DefaultK == 60
\* default of Config.fusion_k
ConfigFusionK == 8

\* Python's None, as a record so that it compares with manifests
None == [none |-> TRUE]

Max(a, b) == IF a > b THEN a ELSE b

(***************************************************************************)
(* dict helpers                                                            *)
(***************************************************************************)
EmptyDict == <<>>

\* d.get(key, default)
Get(d, key, default) == IF key \in DOMAIN d THEN d[key] ELSE default

\* d[key] = value
Put(d, key, value) ==
    [x \in DOMAIN d \cup {key} |-> IF x = key THEN value ELSE d[x]]

(***************************************************************************)
(* Exact score arithmetic.                                                 *)
(***************************************************************************)
MaxRank == Max(MaxTotal, MaxTopK)

RECURSIVE ProdTo(_, _)
ProdTo(k, n) == IF n = 0 THEN 1 ELSE (k + n) * ProdTo(k, n - 1)

\* common denominator of all 1/(k+rank), rank in 1..MaxRank
ScoreDen(k) == ProdTo(k, MaxRank)

\* variant: the rank is not inverted (score grows with the rank)
RecipNotInverted(k, rank) == k + rank
\* variant: ranks counted from 0
RecipMutant(k, rank) == ScoreDen(k) \div (k + rank - 1)
\* 1.0 / (k + rank), in units of 1/ScoreDen(k)
Recip(k, rank) == ScoreDen(k) \div (k + rank)

(***************************************************************************)
(* reciprocal_rank_fusion                                                  *)
(***************************************************************************)
\* variant: the key leaves the corpus out
KeyOfMutant(item) == <<"", Get(item, "chunk_id", "")>>
\* key = (item.get("corpus", ""), item.get("chunk_id", ""))
KeyOf(item) == <<Get(item, "corpus", ""), Get(item, "chunk_id", "")>>

\* inner loop of the scoring pass: items rank, rank+1, ... of one list
RECURSIVE ScoreItems(_, _, _, _)
ScoreItems(score_map, rank_list, rank, k) ==
    IF rank > Len(rank_list) THEN score_map
    ELSE LET key == KeyOf(rank_list[rank])
         IN  ScoreItems(Put(score_map, key, Get(score_map, key, 0) + Recip(k, rank)),
                        rank_list, rank + 1, k)

\* outer loop of the scoring pass: lists i, i+1, ...
RECURSIVE ScoreLists(_, _, _, _)
ScoreLists(score_map, ranked_lists, i, k) ==
    IF i > Len(ranked_lists) THEN score_map
    ELSE ScoreLists(ScoreItems(score_map, ranked_lists[i], 1, k), ranked_lists, i + 1, k)

\* variant: fused_item = item, the input dict itself
item_copyMutant(item) == [alias |-> TRUE, value |-> item]
\* item.copy(): a new dict with the fields of item; alias tells whether a
\* write to the result is a write to item
item_copy(item) == [alias |-> FALSE, value |-> item]

\* fused_item = item.copy(); fused_item["score"] = score_map[key]
FusedItem(item, score_map) == Put(item_copy(item).value, "score", score_map[KeyOf(item)])

\* variant: the merge pass without the test `key not in seen`
RECURSIVE MergeItemsMutant(_, _, _, _)
MergeItemsMutant(st, rank_list, j, score_map) ==
    IF j > Len(rank_list) THEN st
    ELSE MergeItemsMutant([items |-> Append(st.items, FusedItem(rank_list[j], score_map)),
                           seen |-> st.seen \cup {KeyOf(rank_list[j])}],
                          rank_list, j + 1, score_map)

\* inner loop of the merge pass; the state is [items, seen]
RECURSIVE MergeItems(_, _, _, _)
MergeItems(st, rank_list, j, score_map) ==
    IF j > Len(rank_list) THEN st
    ELSE LET item == rank_list[j]
             key == KeyOf(item)
         IN  IF key \notin st.seen
             THEN MergeItems([items |-> Append(st.items, FusedItem(item, score_map)),
                              seen |-> st.seen \cup {key}],
                             rank_list, j + 1, score_map)
             ELSE MergeItems(st, rank_list, j + 1, score_map)

\* outer loop of the merge pass
RECURSIVE MergeLists(_, _, _, _)
MergeLists(st, ranked_lists, i, score_map) ==
    IF i > Len(ranked_lists) THEN st
    ELSE MergeLists(MergeItems(st, ranked_lists[i], 1, score_map),
                    ranked_lists, i + 1, score_map)

\* variant: x goes before its equals (a sort that is not stable)
RECURSIVE InsertDescMutant(_, _)
InsertDescMutant(sorted, x) ==
    IF sorted = <<>> THEN <<x>>
    ELSE IF Get(Head(sorted), "score", 0) > Get(x, "score", 0)
         THEN <<Head(sorted)>> \o InsertDescMutant(Tail(sorted), x)
         ELSE <<x>> \o sorted

\* insertion of x into a list sorted by score descending, after its equals
RECURSIVE InsertDesc(_, _)
InsertDesc(sorted, x) ==
    IF sorted = <<>> THEN <<x>>
    ELSE IF Get(Head(sorted), "score", 0) >= Get(x, "score", 0)
         THEN <<Head(sorted)>> \o InsertDesc(Tail(sorted), x)
         ELSE <<x>> \o sorted

\* list.sort(key=score, reverse=True): a stable sort, score descending
RECURSIVE SortDescFrom(_, _, _)
SortDescFrom(sorted, items, i) ==
    IF i > Len(items) THEN sorted
    ELSE SortDescFrom(InsertDesc(sorted, items[i]), items, i + 1)

SortDesc(items) == SortDescFrom(<<>>, items, 1)

\* variant: without the test `if not ranked_lists`, the first list being read
\* before the passes (IndexError on no lists, nothing fused for empty lists)
reciprocal_rank_fusionMutant(ranked_lists, k) ==
    IF ranked_lists = <<>> \/ ranked_lists[1] = <<>>
    THEN <<[error |-> "IndexError"]>>
    ELSE LET score_map == ScoreLists(EmptyDict, ranked_lists, 1, k)
             merged == MergeLists([items |-> <<>>, seen |-> {}], ranked_lists, 1, score_map)
         IN  SortDesc(merged.items)

reciprocal_rank_fusion(ranked_lists, k) ==
    IF ranked_lists = <<>> THEN <<>>
    ELSE LET score_map == ScoreLists(EmptyDict, ranked_lists, 1, k)
             merged == MergeLists([items |-> <<>>, seen |-> {}], ranked_lists, 1, score_map)
         IN  SortDesc(merged.items)

\* the item at place j of list i is the first of its key in the order of the
\* merge pass (the test `key not in seen` lets it through)
FirstOfKey(ranked_lists, i, j) ==
    \A i2 \in 1..i : \A j2 \in 1..Len(ranked_lists[i2]) :
        (i2 < i \/ j2 < j) => KeyOf(ranked_lists[i2][j2]) # KeyOf(ranked_lists[i][j])

\* the lists the caller passed, as they are after the call: the only write to
\* a dict is fused_item["score"] = ..., which reaches an input item if
\* fused_item is that item
InputsAfter(ranked_lists, k) ==
    IF ranked_lists = <<>> THEN ranked_lists
    ELSE [i \in 1..Len(ranked_lists) |->
            [j \in 1..Len(ranked_lists[i]) |->
                IF FirstOfKey(ranked_lists, i, j) /\ item_copy(ranked_lists[i][j]).alias
                THEN FusedItem(ranked_lists[i][j],
                               ScoreLists(EmptyDict, ranked_lists, 1, k))
                ELSE ranked_lists[i][j]]]

(***************************************************************************)
(* Inputs of the fusion calls.                                             *)
(***************************************************************************)
\* the items of tests/test_fusion.py (test_fusion_multiple_lists,
\* test_fusion_preserves_metadata) and one more record of an existing key
Pdf1 == [corpus |-> "pdf", chunk_id |-> "chunk_1"]
Pdf2 == [corpus |-> "pdf", chunk_id |-> "chunk_2"]
Sas2 == [corpus |-> "sas", chunk_id |-> "chunk_2"]
Sas1 == [corpus |-> "sas", chunk_id |-> "chunk_1"]
Pdf1Text == [corpus |-> "pdf", chunk_id |-> "chunk_1", score |-> 9,
             text |-> "Some text", metadata |-> "test.pdf"]

ItemPool == {Pdf1, Pdf2, Sas2, Sas1, Pdf1Text}

KValues == {1, DefaultK}

RECURSIVE TotalLen(_)
TotalLen(lists) == IF lists = <<>> THEN 0 ELSE Len(Head(lists)) + TotalLen(Tail(lists))

(***************************************************************************)
(* What the object store holds: manifests and, per corpus prefix, the      *)
(* three files index.faiss, ids.jsonl and docs.jsonl.                      *)
(*                                                                         *)
(* An index is [d, ntotal, order]: order[q] lists <<distance, ann_id>> of  *)
(* all its vectors by descending similarity to the embedding of query q    *)
(* (index.search is the library's; only its contract is modelled).  A      *)
(* jsonl file is a sequence of lines: [kind |-> "bad"] for a line that is  *)
(* blank or not JSON, [kind |-> "obj", obj |-> the object] for a JSON      *)
(* object, [kind |-> "value"] for any other JSON text (an array, a number, *)
(* a string).  The ann_id of an object is a JSON number JNum(n) or a JSON  *)
(* string JStr(s).                                                         *)
(***************************************************************************)
Queries == {"", "dose"}

ObjLine(o) == [kind |-> "obj", obj |-> o]
BadLine == [kind |-> "bad"]
ValueLine == [kind |-> "value"]
JNum(n) == [num |-> n]
JStr(t) == [str |-> t]

\* corpus pdf: 3 vectors; ordinal 2 has no line in ids.jsonl
PdfFiles ==
    [index |-> [d |-> 4, ntotal |-> 3,
                order |-> [q \in Queries |->
                              IF q = "dose" THEN << <<90, 0>>, <<80, 1>>, <<70, 2>> >>
                                            ELSE << <<50, 2>>, <<40, 1>>, <<30, 0>> >>]],
     ids |-> << ObjLine([ann_id |-> JNum(0), id |-> "chunkA"]),
                BadLine,
                ObjLine([ann_id |-> JNum(1), id |-> "chunkB"]) >>,
     docs |-> << ObjLine([id |-> "chunkA", text |-> "text A", metadata |-> [source |-> "a.pdf"]]),
                 ObjLine([id |-> "chunkB", text |-> "text B"]) >>]

\* corpus sas: 2 vectors; chunkC has no line in docs.jsonl, and ids.jsonl holds
\* a line for the ordinal -1
SasFiles ==
    [index |-> [d |-> 4, ntotal |-> 2,
                order |-> [q \in Queries |->
                              IF q = "dose" THEN << <<85, 0>>, <<70, 1>> >>
                                            ELSE << <<20, 1>>, <<10, 0>> >>]],
     ids |-> << ObjLine([ann_id |-> JNum(0), id |-> "chunkB"]),
                ObjLine([ann_id |-> JNum(-1), id |-> "chunkZ"]),
                ObjLine([ann_id |-> JNum(1), id |-> "chunkC"]) >>,
     docs |-> << ObjLine([id |-> "chunkB", text |-> "table B", metadata |-> [domain |-> "AE"]]),
                 BadLine >>]

\* corpus sas built with another embedding model: the index is 8 wide
SasFilesWide == [SasFiles EXCEPT !.index.d = 8]

CorpusEntry(name, stored, dimension, count) ==
    [name |-> name, stored |-> stored, dimension |-> dimension, count |-> count]

\* the manifests the manifest key has held over time (corpora in dict order)
ManifestV1 == [version |-> "v1", corpora |-> << CorpusEntry("pdf", PdfFiles, 4, 3) >>]
ManifestV2 == [version |-> "v2", corpora |-> << CorpusEntry("pdf", PdfFiles, 4, 3),
                                                CorpusEntry("sas", SasFiles, 4, 2) >>]
ManifestV3 == [version |-> "v3", corpora |-> << CorpusEntry("pdf", PdfFiles, 4, 3),
                                                CorpusEntry("sas", SasFilesWide, 4, 2) >>]

ManifestStore == {ManifestV1, ManifestV2, ManifestV3}

\* get_object_json or Manifest.model_validate raises
Unavailable == [version |-> "unavailable", corpora |-> <<>>]

\* A fault of the environment during the load of corpus number `at`:
\*   "download"    download_if_needed raises,
\*   "read_index"  faiss.read_index raises,
\*   "ids"/"docs"  reading ids.jsonl / docs.jsonl raises.
NoFault == [at |-> 0, stage |-> "none"]
Faults ==
    {NoFault} \cup [at : 1..2, stage : {"download", "read_index", "ids", "docs"}]

(***************************************************************************)
(* FaissS3Retriever.  `self` is the record of the object's fields.         *)
(***************************************************************************)
Self ==
    [manifest |-> manifest, indices |-> indices, id_maps |-> id_maps,
     doc_maps |-> doc_maps, loaded |-> loaded, corpus_counts |-> corpus_counts]

\* an insertion-ordered dict as a sequence of [name, index] entries
OrderedKeys(od) == {od[i].name : i \in 1..Len(od)}

\* od[name] = index: a new key goes last, an existing key keeps its place
OrderedPut(od, name, index) ==
    IF name \in OrderedKeys(od)
    THEN [i \in 1..Len(od) |->
            IF od[i].name = name THEN [name |-> name, index |-> index] ELSE od[i]]
    ELSE Append(od, [name |-> name, index |-> index])

\* what json.loads gives for a line that is JSON but no object
NotADict == [not_a_dict |-> TRUE]

\* jsonl_iter: json.loads of every line that parses, object or not; blank lines
\* and lines that raise JSONDecodeError are left out
RECURSIVE jsonl_iter(_)
jsonl_iter(lines) ==
    IF lines = <<>> THEN <<>>
    ELSE IF Head(lines).kind = "obj"
         THEN <<Head(lines).obj>> \o jsonl_iter(Tail(lines))
         ELSE IF Head(lines).kind = "value"
         THEN <<NotADict>> \o jsonl_iter(Tail(lines))
         ELSE jsonl_iter(Tail(lines))

\* int(ann_id): a JSON number gives itself, a string gives the number it spells
\* or raises ValueError
IntOf(v) ==
    IF "num" \in DOMAIN v THEN [ok |-> TRUE, int |-> v.num]
    ELSE IF v.str = "0" THEN [ok |-> TRUE, int |-> 0]
    ELSE IF v.str = "1" THEN [ok |-> TRUE, int |-> 1]
    ELSE [ok |-> FALSE, int |-> 0]

\* the id map of ids.jsonl: ann_id -> chunk_id, as [status, map].  item.get
\* raises AttributeError on a value that is no dict and int() raises ValueError;
\* the ids are strings, on which str() changes nothing.
RECURSIVE BuildIdMap(_, _)
BuildIdMap(id_map, items) ==
    IF items = <<>> THEN [status |-> "ok", map |-> id_map]
    ELSE LET item == Head(items)
         IN  IF item = NotADict THEN [status |-> "AttributeError", map |-> id_map]
             ELSE IF "ann_id" \in DOMAIN item /\ Get(item, "id", "") # ""
             THEN IF IntOf(item.ann_id).ok
                  THEN BuildIdMap(Put(id_map, IntOf(item.ann_id).int, item.id), Tail(items))
                  ELSE [status |-> "ValueError", map |-> id_map]
             ELSE BuildIdMap(id_map, Tail(items))

\* the doc map of docs.jsonl: chunk_id -> {text, metadata}, as [status, map]
RECURSIVE BuildDocMap(_, _)
BuildDocMap(doc_map, items) ==
    IF items = <<>> THEN [status |-> "ok", map |-> doc_map]
    ELSE LET item == Head(items)
         IN  IF item = NotADict THEN [status |-> "AttributeError", map |-> doc_map]
             ELSE IF Get(item, "id", "") # ""
             THEN BuildDocMap(Put(doc_map, item.id,
                                  [text |-> Get(item, "text", ""),
                                   metadata |-> Get(item, "metadata", EmptyDict)]),
                              Tail(items))
             ELSE BuildDocMap(doc_map, Tail(items))

Raise(self, status) == [self |-> self, status |-> status]

\* _load_corpus: the fields are assigned one after the other, and an exception
\* leaves the assignments made before it
_load_corpus(self, entry, stage) ==
    LET index == entry.stored.index
        ids == BuildIdMap(EmptyDict, jsonl_iter(entry.stored.ids))
        docs == BuildDocMap(EmptyDict, jsonl_iter(entry.stored.docs))
        s1 == [self EXCEPT !.indices = OrderedPut(@, entry.name, index)]
        s2 == [s1 EXCEPT !.id_maps = Put(@, entry.name, ids.map)]
        s3 == [s2 EXCEPT !.doc_maps = Put(@, entry.name, docs.map)]
        s4 == [s3 EXCEPT !.corpus_counts = Put(@, entry.name, entry.count)]
    IN  IF stage = "download" THEN Raise(self, "DownloadFailed")
        ELSE IF stage = "read_index" THEN Raise(self, "ReadIndexFailed")
        ELSE IF index.d # entry.dimension THEN Raise(self, "DimensionMismatch")
        ELSE IF stage = "ids" THEN Raise(s1, "IdsFileError")
        ELSE IF ids.status # "ok" THEN Raise(s1, ids.status)
        ELSE IF stage = "docs" THEN Raise(s2, "DocsFileError")
        ELSE IF docs.status # "ok" THEN Raise(s2, docs.status)
        ELSE Raise(s4, "ok")

\* the loop over manifest.corpora, from corpus number i on
RECURSIVE LoadCorpora(_, _, _, _)
LoadCorpora(self, corpora, i, fault) ==
    IF i > Len(corpora) THEN [self |-> self, status |-> "ok", at |-> 0]
    ELSE LET r == _load_corpus(self, corpora[i], IF fault.at = i THEN fault.stage ELSE "none")
         IN  IF r.status # "ok"
             THEN [self |-> r.self, status |-> r.status, at |-> i]
             ELSE LoadCorpora(r.self, corpora, i + 1, fault)

\* variant: the flag is never set
SetLoadedMutant(self) == self
\* self.loaded = True
SetLoaded(self) == [self EXCEPT !.loaded = TRUE]

load_from_manifest(self, fetched, fault) ==
    IF fetched = Unavailable
    THEN [self |-> self, status |-> "ManifestError", at |-> 0]
    ELSE LET r == LoadCorpora([self EXCEPT !.manifest = fetched], fetched.corpora, 1, fault)
         IN  IF r.status # "ok" THEN r
             ELSE [self |-> SetLoaded(r.self), status |-> "ok", at |-> 0]

\* index.search(query_vector, top_k): top_k slots, the nearest first, the slots
\* beyond ntotal filled with ann_id -1
IndexSearch(index, query, top_k) ==
    [i \in 1..top_k |->
        IF i <= index.ntotal THEN index.order[query][i] ELSE <<0, -1>>]

\* variant: without the test `ann_id == -1`
RECURSIVE CorpusResultsNoSentinel(_, _, _, _, _, _)
CorpusResultsNoSentinel(results, corpus_name, hits, i, id_map, doc_map) ==
    IF i > Len(hits) THEN results
    ELSE LET distance == hits[i][1]
             ann_id == hits[i][2]
             chunk_id == Get(id_map, ann_id, "")
             doc_data == Get(doc_map, chunk_id, EmptyDict)
         IN  IF chunk_id = ""
             THEN CorpusResultsNoSentinel(results, corpus_name, hits, i + 1, id_map, doc_map)
             ELSE CorpusResultsNoSentinel(
                      Append(results,
                             [corpus |-> corpus_name, chunk_id |-> chunk_id,
                              score |-> distance,
                              text |-> Get(doc_data, "text", ""),
                              metadata |-> Get(doc_data, "metadata", EmptyDict)]),
                      corpus_name, hits, i + 1, id_map, doc_map)

\* variant: a hit without a document is skipped like a hit without a chunk id
RECURSIVE CorpusResultsNoDoc(_, _, _, _, _, _)
CorpusResultsNoDoc(results, corpus_name, hits, i, id_map, doc_map) ==
    IF i > Len(hits) THEN results
    ELSE LET distance == hits[i][1]
             ann_id == hits[i][2]
             chunk_id == Get(id_map, ann_id, "")
             doc_data == Get(doc_map, chunk_id, EmptyDict)
         IN  IF ann_id = -1 \/ chunk_id = "" \/ chunk_id \notin DOMAIN doc_map
             THEN CorpusResultsNoDoc(results, corpus_name, hits, i + 1, id_map, doc_map)
             ELSE CorpusResultsNoDoc(
                      Append(results,
                             [corpus |-> corpus_name, chunk_id |-> chunk_id,
                              score |-> distance,
                              text |-> Get(doc_data, "text", ""),
                              metadata |-> Get(doc_data, "metadata", EmptyDict)]),
                      corpus_name, hits, i + 1, id_map, doc_map)

\* variant: the loop stops at the first hit without a chunk id (break)
RECURSIVE CorpusResultsMutant(_, _, _, _, _, _)
CorpusResultsMutant(results, corpus_name, hits, i, id_map, doc_map) ==
    IF i > Len(hits) THEN results
    ELSE LET distance == hits[i][1]
             ann_id == hits[i][2]
             chunk_id == Get(id_map, ann_id, "")
             doc_data == Get(doc_map, chunk_id, EmptyDict)
         IN  IF ann_id = -1
             THEN CorpusResultsMutant(results, corpus_name, hits, i + 1, id_map, doc_map)
             ELSE IF chunk_id = "" THEN results
             ELSE CorpusResultsMutant(
                      Append(results,
                             [corpus |-> corpus_name, chunk_id |-> chunk_id,
                              score |-> distance,
                              text |-> Get(doc_data, "text", ""),
                              metadata |-> Get(doc_data, "metadata", EmptyDict)]),
                      corpus_name, hits, i + 1, id_map, doc_map)

\* the loop over the hits of one corpus, from slot i on
RECURSIVE CorpusResults(_, _, _, _, _, _)
CorpusResults(results, corpus_name, hits, i, id_map, doc_map) ==
    IF i > Len(hits) THEN results
    ELSE LET distance == hits[i][1]
             ann_id == hits[i][2]
             chunk_id == Get(id_map, ann_id, "")
             doc_data == Get(doc_map, chunk_id, EmptyDict)
         IN  IF ann_id = -1 \/ chunk_id = ""
             THEN CorpusResults(results, corpus_name, hits, i + 1, id_map, doc_map)
             ELSE CorpusResults(
                      Append(results,
                             [corpus |-> corpus_name, chunk_id |-> chunk_id,
                              score |-> distance,
                              text |-> Get(doc_data, "text", ""),
                              metadata |-> Get(doc_data, "metadata", EmptyDict)]),
                      corpus_name, hits, i + 1, id_map, doc_map)

\* variant: a corpus without results ends the loop over the corpora
RECURSIVE SearchCorporaMutant(_, _, _, _, _)
SearchCorporaMutant(self, ranked_lists, n, query, top_k) ==
    IF n > Len(self.indices) THEN [status |-> "ok", value |-> ranked_lists]
    ELSE LET corpus_name == self.indices[n].name
         IN  IF corpus_name \notin DOMAIN self.id_maps \/ corpus_name \notin DOMAIN self.doc_maps
             THEN [status |-> "KeyError", value |-> <<>>]
             ELSE LET corpus_results ==
                          CorpusResults(<<>>, corpus_name,
                                        IndexSearch(self.indices[n].index, query, top_k), 1,
                                        self.id_maps[corpus_name], self.doc_maps[corpus_name])
                  IN  IF corpus_results = <<>>
                      THEN [status |-> "ok", value |-> ranked_lists]
                      ELSE SearchCorporaMutant(self, Append(ranked_lists, corpus_results),
                                               n + 1, query, top_k)

\* the loop over self.indices.items(), from entry n on
RECURSIVE SearchCorpora(_, _, _, _, _)
SearchCorpora(self, ranked_lists, n, query, top_k) ==
    IF n > Len(self.indices) THEN [status |-> "ok", value |-> ranked_lists]
    ELSE LET corpus_name == self.indices[n].name
         IN  IF corpus_name \notin DOMAIN self.id_maps \/ corpus_name \notin DOMAIN self.doc_maps
             THEN [status |-> "KeyError", value |-> <<>>]
             ELSE SearchCorpora(
                      self,
                      Append(ranked_lists,
                             CorpusResults(<<>>, corpus_name,
                                           IndexSearch(self.indices[n].index, query, top_k), 1,
                                           self.id_maps[corpus_name], self.doc_maps[corpus_name])),
                      n + 1, query, top_k)

\* embed_query(query, config) of utils/embeddings: the provider answers every
\* text, the empty one included, with a vector (TRUE) or fails (FALSE); what the
\* vector is shows in the order in which the index returns its entries
EmbedOutcomes(query) == BOOLEAN

\* variant: search reads the documents with doc_map.setdefault(chunk_id, {})
SearchSelfMutant(self) ==
    [self EXCEPT !.doc_maps =
        [c \in DOMAIN self.doc_maps |->
            IF c \notin DOMAIN self.id_maps THEN self.doc_maps[c]
            ELSE [ch \in DOMAIN self.doc_maps[c]
                          \cup {self.id_maps[c][a] : a \in DOMAIN self.id_maps[c]} |->
                     Get(self.doc_maps[c], ch, EmptyDict)]]]
\* the facade after search: search assigns no field of self and calls no
\* mutating method of its dicts (indices.items, id_map.get, doc_map.get)
SearchSelf(self) == self

\* variant: the check looks at the indices instead of the flag
NotLoadedMutant(self) == self.indices = <<>>
\* the check at the head of search
NotLoaded(self) == ~self.loaded

search(self, query, top_k, embed_ok) ==
    IF NotLoaded(self) THEN [status |-> "NotLoaded", value |-> <<>>]
    ELSE IF ~embed_ok THEN [status |-> "EmbeddingFailure", value |-> <<>>]
    ELSE LET r == SearchCorpora(self, <<>>, 1, query, top_k)
         IN  IF r.status # "ok" THEN r
             ELSE [status |-> "ok", value |-> reciprocal_rank_fusion(r.value, ConfigFusionK)]

\* variant: close without doc_maps.clear()
closeMutant(self) ==
    [self EXCEPT !.indices = <<>>, !.id_maps = EmptyDict, !.loaded = FALSE]
close(self) ==
    [self EXCEPT !.indices = <<>>, !.id_maps = EmptyDict, !.doc_maps = EmptyDict,
                 !.loaded = FALSE]

(***************************************************************************)
(* api/server.py: the module globals and the handlers.  The handlers are   *)
(* `async def` functions without an await, and _ensure_initialized is an   *)
(* ordinary function: on the event loop (uvicorn) a handler runs from its  *)
(* first line to its response before another request is served, and a      *)
(* Lambda container serves one event at a time.  `g` is the record of the  *)
(* globals retriever, config and _initialized.                             *)
(***************************************************************************)
MaxRequests == 3

\* FaissS3Retriever(config)
NewRetriever ==
    [manifest |-> None, indices |-> <<>>, id_maps |-> EmptyDict,
     doc_maps |-> EmptyDict, loaded |-> FALSE, corpus_counts |-> EmptyDict]

\* Config.from_env() followed by validate(), RAG_BUCKET being set
ConfigFromEnv == [fusion_k |-> ConfigFusionK]

\* variant: the flag is never set
SetInitializedMutant(g) == g
\* _initialized = True
SetInitialized(g) == [g EXCEPT !.initialized = TRUE]

\* retriever = FaissS3Retriever(config); retriever.load_from_manifest(...):
\* the new object after the call, and how the call ended
LoadNew(fetched, fault) == load_from_manifest(NewRetriever, fetched, fault)

\* variant: _initialized is set before the load is tried
_ensure_initializedMutant(g, bucket, load) ==
    IF g.initialized THEN [g |-> g, raised |-> FALSE, ran_load |-> FALSE]
    ELSE IF ~bucket THEN [g |-> g, raised |-> TRUE, ran_load |-> FALSE]
    ELSE [g |-> SetInitialized([g EXCEPT !.config = ConfigFromEnv,
                                         !.retriever = load.self]),
          raised |-> load.status # "ok", ran_load |-> TRUE]

\* _ensure_initialized(): [g, raised, ran_load]; `load` is the outcome LoadNew
\* has if the function comes to it, ran_load tells whether it did
_ensure_initialized(g, bucket, load) ==
    IF g.initialized THEN [g |-> g, raised |-> FALSE, ran_load |-> FALSE]
    ELSE IF ~bucket THEN [g |-> g, raised |-> TRUE, ran_load |-> FALSE]
    ELSE LET g1 == [g EXCEPT !.config = ConfigFromEnv, !.retriever = load.self]
         IN  IF load.status # "ok"
             THEN [g |-> g1, raised |-> TRUE, ran_load |-> TRUE]
             ELSE [g |-> SetInitialized(g1), raised |-> FALSE, ran_load |-> TRUE]

\* a response: the status code, what it carries, the number of citations, and
\* (ghost) the outcome of the search that was made for it
Response(code, kind, citations, searched) ==
    [code |-> code, kind |-> kind, citations |-> citations, searched |-> searched]
NoSearch == [status |-> "none", value |-> <<>>]

\* variant: a failed search is answered like a search without results
ChatResponseOfMutant(r) ==
    IF r.status # "ok" \/ r.value = <<>> THEN Response(200, "no_documents", 0, r)
    ELSE Response(200, "answer", IF Len(r.value) > 10 THEN 10 ELSE Len(r.value), r)
\* the try block of chat: r is what retriever.search returned or raised
ChatResponseOf(r) ==
    IF r.status # "ok" THEN Response(500, "search_failed", 0, r)
    ELSE IF r.value = <<>> THEN Response(200, "no_documents", 0, r)
    ELSE Response(200, "answer", IF Len(r.value) > 10 THEN 10 ELSE Len(r.value), r)

\* chat(request): [g, raised, ran_load, resp]; an exception of
\* _ensure_initialized leaves the handler and is answered with status 500
chat(g, bucket, load, query, top_k, embed_ok) ==
    LET e == _ensure_initialized(g, bucket, load)
        resp_ == IF e.raised THEN Response(500, "init_failed", 0, NoSearch)
                 ELSE IF e.g.retriever = None
                      THEN Response(503, "not_initialized", 0, NoSearch)
                 ELSE IF ~e.g.retriever.loaded
                      THEN Response(503, "not_loaded", 0, NoSearch)
                 ELSE ChatResponseOf(search(e.g.retriever, query, top_k, embed_ok))
    IN  [g |-> e.g, raised |-> e.raised, ran_load |-> e.ran_load, resp |-> resp_]

\* get_status(): the exception of _ensure_initialized is swallowed
get_status(g, bucket, load) ==
    LET e == _ensure_initialized(g, bucket, load)
        resp_ == IF e.g.retriever = None \/ ~e.g.retriever.loaded
                 THEN Response(503, "not_initialized", 0, NoSearch)
                 ELSE Response(200, "status", 0, NoSearch)
    IN  [g |-> e.g, raised |-> e.raised, ran_load |-> e.ran_load, resp |-> resp_]

\* the module globals after import
ServerConstruct ==
    /\ retriever = None
    /\ config = None
    /\ _initialized = FALSE
    /\ phase = "boot"
    /\ resp = [handler |-> "none", r |-> Response(0, "none", 0, NoSearch), raised |-> FALSE]
    /\ calls = [requests |-> 0, loads |-> 0, okLoads |-> 0]

(***************************************************************************)
(* The initial values of the variables of the specifications further down: *)
(* each of them starts from the state in which the others leave it.        *)
(***************************************************************************)
ParseInit ==
    /\ parse_lines = <<>>
    /\ parse_out = [status |-> "none"]
    /\ parse_pc = "write"

DownloadInit ==
    /\ dl_remote = None
    /\ dl_local = None
    /\ dl_ret = [op |-> "none", prev |-> "none"]

\* the locals of a thread that has not entered search()
NoSearchYet ==
    [pc |-> "idle", query |-> "", top_k |-> 0, snapshot |-> None,
     it_size |-> 0, it_pos |-> 0, name |-> "", index |-> None, id_map |-> EmptyDict,
     lists |-> <<>>, status |-> "none", value |-> <<>>]

RaceInit ==
    /\ rc_self = NewRetriever
    /\ rc_search = NoSearchYet
    /\ rc_close = "idle"

\* the corpora that have an indexer, the hosts the indexers run on and the
\* versions they are started with
IndexerCorpora == {"pdf", "sas"}
Hosts == {"host1", "host2"}
Versions == {"v1", "v2"}

ManifestInit ==
    /\ mf_stored = None
    /\ mf_tmp = [h \in Hosts |-> None]
    /\ mf_proc = [c \in IndexerCorpora |->
                    [pc |-> "idle", host |-> "", version |-> "", manifest |-> None]]

ChunkInit ==
    /\ ck_args = [text |-> <<>>, max_chars |-> 0, overlap_chars |-> 0]
    /\ ck_loc = [pc |-> "idle", start |-> 0, prev |-> 0, iterations |-> 0]
    /\ ck_chunks = <<>>

AuxInit == ParseInit /\ DownloadInit /\ RaceInit /\ ManifestInit /\ ChunkInit

(***************************************************************************)
(* Construction of the facade: FaissS3Retriever.__init__                   *)
(***************************************************************************)
FacadeInit ==
    /\ manifest = None
    /\ indices = <<>>
    /\ id_maps = EmptyDict
    /\ doc_maps = EmptyDict
    /\ loaded = FALSE
    /\ corpus_counts = EmptyDict
    /\ ret = [op |-> "init", args |-> <<>>, status |-> "ok", at |-> 0, value |-> <<>>]
    /\ hist = [loadedOk |-> FALSE, closed |-> FALSE, prev |-> <<"none", "ok">>]

\* self := s
Assign(s) ==
    /\ manifest' = s.manifest
    /\ indices' = s.indices
    /\ id_maps' = s.id_maps
    /\ doc_maps' = s.doc_maps
    /\ loaded' = s.loaded
    /\ corpus_counts' = s.corpus_counts

(***************************************************************************)
(* The calls on one facade.  hist records whether a load has succeeded     *)
(* since construction or the last close (loadedOk), whether close was ever *)
(* called (closed), and the call before the last one (prev).               *)
(***************************************************************************)
LoadFromManifest ==
    \E fetched \in ManifestStore \cup {Unavailable}, fault \in Faults :
        LET r == load_from_manifest(Self, fetched, fault)
        IN  /\ Assign(r.self)
            /\ ret' = [op |-> "load", args |-> <<>>, status |-> r.status, at |-> r.at,
                        value |-> <<>>]
            /\ hist' = [loadedOk |-> hist.loadedOk \/ r.status = "ok",
                        closed |-> hist.closed,
                        prev |-> <<ret.op, ret.status>>]
            /\ UNCHANGED <<fuseVars, serverVars, auxVars>>

Search ==
    \E query \in Queries, top_k \in 1..MaxTopK : \E embed_ok \in EmbedOutcomes(query) :
        LET r == search(Self, query, top_k, embed_ok)
        IN  /\ Assign(SearchSelf(Self))
            /\ ret' = [op |-> "search", args |-> <<query, top_k>>, status |-> r.status,
                        at |-> 0, value |-> r.value]
            /\ hist' = [hist EXCEPT !.prev = <<ret.op, ret.status>>]
            /\ UNCHANGED <<fuseVars, serverVars, auxVars>>

Close ==
    /\ Assign(close(Self))
    /\ ret' = [op |-> "close", args |-> <<>>, status |-> "ok", at |-> 0, value |-> <<>>]
    /\ hist' = [loadedOk |-> FALSE, closed |-> TRUE, prev |-> <<ret.op, ret.status>>]
    /\ UNCHANGED <<fuseVars, serverVars, auxVars>>

Init ==
    /\ FacadeInit
    /\ ServerConstruct
    /\ rag_bucket = TRUE
    /\ AuxInit
    /\ fuse_lists = <<>>
    /\ fuse_k = DefaultK
    /\ fuse_out = <<>>
    /\ fuse_pc = "idle"

Next == LoadFromManifest \/ Search \/ Close

Spec == Init /\ [][Next]_vars

(***************************************************************************)
(* Specification of the fusion calls.                                      *)
(***************************************************************************)
\* The caller assembles ranked_lists list by list and item by item (as search()
\* does with ranked_lists.append and corpus_results.append) and then calls.
FuseInit ==
    /\ fuse_lists = <<>>
    /\ fuse_k \in KValues
    /\ fuse_out = <<>>
    /\ fuse_pc = "call"

\* ranked_lists.append([])
NewList ==
    /\ fuse_pc = "call"
    /\ Len(fuse_lists) < MaxLists
    /\ fuse_lists' = Append(fuse_lists, <<>>)
    /\ UNCHANGED <<fuse_k, fuse_out, fuse_pc>>
    /\ UNCHANGED <<manifest, indices, id_maps, doc_maps, loaded, corpus_counts, ret, hist>>
    /\ UNCHANGED <<serverVars, auxVars>>

\* ranked_lists[-1].append(item)
AddItem ==
    /\ fuse_pc = "call"
    /\ fuse_lists # <<>>
    /\ TotalLen(fuse_lists) < MaxTotal
    /\ \E item \in ItemPool :
          fuse_lists' = [fuse_lists EXCEPT ![Len(fuse_lists)] = Append(@, item)]
    /\ UNCHANGED <<fuse_k, fuse_out, fuse_pc>>
    /\ UNCHANGED <<manifest, indices, id_maps, doc_maps, loaded, corpus_counts, ret, hist>>
    /\ UNCHANGED <<serverVars, auxVars>>

\* fuse_out = reciprocal_rank_fusion(fuse_lists, k=fuse_k)
Fuse ==
    /\ fuse_pc = "call"
    /\ fuse_out' = reciprocal_rank_fusion(fuse_lists, fuse_k)
    /\ fuse_lists' = InputsAfter(fuse_lists, fuse_k)
    /\ fuse_pc' = "done"
    /\ UNCHANGED fuse_k
    /\ UNCHANGED <<manifest, indices, id_maps, doc_maps, loaded, corpus_counts, ret, hist>>
    /\ UNCHANGED <<serverVars, auxVars>>

InitFusion == FuseInit /\ FacadeInit /\ ServerConstruct /\ rag_bucket = TRUE /\ AuxInit
NextFusion == NewList \/ AddItem \/ Fuse
SpecFusion == InitFusion /\ [][NextFusion]_vars

(***************************************************************************)
(* Specification of one server process.                                    *)
(***************************************************************************)
Globals == [retriever |-> retriever, config |-> config, initialized |-> _initialized]

\* retriever, config, _initialized := g
AssignGlobals(g) ==
    /\ retriever' = g.retriever
    /\ config' = g.config
    /\ _initialized' = g.initialized

\* the counters after a request whose outcome is o
Counted(o) ==
    [requests |-> calls.requests + 1,
     loads |-> calls.loads + (IF o.ran_load THEN 1 ELSE 0),
     okLoads |-> calls.okLoads + (IF o.ran_load /\ ~o.raised THEN 1 ELSE 0)]

Serving == phase \in {"uvicorn", "lambda"} /\ calls.requests < MaxRequests

\* uvicorn.run(app): the startup half of lifespan; an exception ends the process
LifespanStartup ==
    /\ phase = "boot"
    /\ \E fetched \in ManifestStore \cup {Unavailable}, fault \in Faults :
          IF ~rag_bucket
          THEN /\ phase' = "down"
               /\ UNCHANGED <<retriever, config>>
          ELSE \E load \in {LoadNew(fetched, fault)} :
                   /\ config' = ConfigFromEnv
                   /\ retriever' = load.self
                   /\ phase' = IF load.status = "ok" THEN "uvicorn" ELSE "down"
    /\ UNCHANGED <<_initialized, rag_bucket, resp, calls>>
    /\ UNCHANGED <<fuseVars, facade, ret, hist, auxVars>>

\* handler(event, context): Mangum(app, lifespan="off"), nothing is loaded
LambdaColdStart ==
    /\ phase = "boot"
    /\ phase' = "lambda"
    /\ UNCHANGED <<retriever, config, _initialized, rag_bucket, resp, calls>>
    /\ UNCHANGED <<fuseVars, facade, ret, hist, auxVars>>

\* POST /v1/chat
Chat ==
    /\ Serving
    /\ \E fetched \in ManifestStore \cup {Unavailable}, fault \in Faults,
          query \in Queries, top_k \in 1..MaxTopK :
          \E embed_ok \in EmbedOutcomes(query), load \in {LoadNew(fetched, fault)} :
              \E o \in {chat(Globals, rag_bucket, load, query, top_k, embed_ok)} :
                  /\ AssignGlobals(o.g)
                  /\ resp' = [handler |-> "chat", r |-> o.resp, raised |-> o.raised]
                  /\ calls' = Counted(o)
    /\ UNCHANGED <<rag_bucket, phase>>
    /\ UNCHANGED <<fuseVars, facade, ret, hist, auxVars>>

\* GET /v1/status
GetStatus ==
    /\ Serving
    /\ \E fetched \in ManifestStore \cup {Unavailable}, fault \in Faults :
          \E load \in {LoadNew(fetched, fault)} :
              \E o \in {get_status(Globals, rag_bucket, load)} :
                  /\ AssignGlobals(o.g)
                  /\ resp' = [handler |-> "status", r |-> o.resp, raised |-> o.raised]
                  /\ calls' = Counted(o)
    /\ UNCHANGED <<rag_bucket, phase>>
    /\ UNCHANGED <<fuseVars, facade, ret, hist, auxVars>>

\* the shutdown half of lifespan
Shutdown ==
    /\ phase = "uvicorn"
    /\ retriever' = IF retriever # None THEN close(retriever) ELSE retriever
    /\ phase' = "down"
    /\ resp' = [handler |-> "none", r |-> Response(0, "none", 0, NoSearch), raised |-> FALSE]
    /\ UNCHANGED <<config, _initialized, rag_bucket, calls>>
    /\ UNCHANGED <<fuseVars, facade, ret, hist, auxVars>>

InitServer ==
    /\ AuxInit
    /\ ServerConstruct
    /\ rag_bucket \in BOOLEAN
    /\ FacadeInit
    /\ fuse_lists = <<>>
    /\ fuse_k = DefaultK
    /\ fuse_out = <<>>
    /\ fuse_pc = "idle"

NextServer == LifespanStartup \/ LambdaColdStart \/ Chat \/ GetStatus \/ Shutdown

SpecServer == InitServer /\ [][NextServer]_vars

(***************************************************************************)
(* Specification of the load of one corpus whose ids.jsonl or docs.jsonl   *)
(* is an arbitrary file of up to MaxLines lines.                           *)
(***************************************************************************)
MaxLines == 2

\* the lines a builder or a damaged upload can leave in a jsonl file
LinePool ==
    {BadLine,
     ValueLine,
     ObjLine([ann_id |-> JNum(0), id |-> "chunkA"]),
     ObjLine([ann_id |-> JNum(1), id |-> "chunkB", text |-> "text B"]),
     ObjLine([ann_id |-> JStr("abc"), id |-> "chunkB"]),
     ObjLine([ann_id |-> JNum(1)]),
     ObjLine([id |-> "chunkB"])}

\* one more line of the file
WriteLine ==
    /\ parse_pc = "write"
    /\ Len(parse_lines) < MaxLines
    /\ \E line \in LinePool : parse_lines' = Append(parse_lines, line)
    /\ UNCHANGED <<parse_out, parse_pc>>
    /\ UNCHANGED notParse

\* _load_corpus of corpus pdf, the file being its ids.jsonl
LoadIdsFile ==
    /\ parse_pc = "write"
    /\ parse_out' = _load_corpus(NewRetriever,
                                 CorpusEntry("pdf", [PdfFiles EXCEPT !.ids = parse_lines], 4, 3),
                                 "none")
    /\ parse_pc' = "ids"
    /\ UNCHANGED parse_lines
    /\ UNCHANGED notParse

\* _load_corpus of corpus pdf, the file being its docs.jsonl
LoadDocsFile ==
    /\ parse_pc = "write"
    /\ parse_out' = _load_corpus(NewRetriever,
                                 CorpusEntry("pdf", [PdfFiles EXCEPT !.docs = parse_lines], 4, 3),
                                 "none")
    /\ parse_pc' = "docs"
    /\ UNCHANGED parse_lines
    /\ UNCHANGED notParse

NextParse == WriteLine \/ LoadIdsFile \/ LoadDocsFile

SpecParse == Init /\ [][NextParse]_vars

(***************************************************************************)
(* utils/s3io.py: download_if_needed on one key.  The object under the key *)
(* is what atomic_upload (upload_file) last stored: its body and the number *)
(* of parts it was sent in (upload_file sends a file above the multipart   *)
(* threshold in parts).  The ETag of an object sent in one part is the MD5 *)
(* of its body; the ETag of an object sent in parts is the MD5 of the MD5s *)
(* of the parts with the number of parts appended.                         *)
(***************************************************************************)
MaxParts == 2
Bodies == {"index v1", "index v2"}

\* hashlib.md5 of a content, as a value that tells contents apart
Md5(body) == <<"md5", body>>

\* _compute_file_hash(local_path)
_compute_file_hash(file) == Md5(file.body)

\* response["ETag"] of head_object, the quotes stripped
ETag(object) ==
    IF object.parts = 1 THEN Md5(object.body)
    ELSE <<"md5 of part md5s", object.body, object.parts>>

\* download_if_needed: [local, attempted, result]; head_ok and get_ok tell
\* whether head_object and download_file answer without ClientError (both fail
\* on a key that holds no object); result is "True", "False" or "ClientError"
download_if_needed(remote, local, force, head_ok, get_ok) ==
    IF ~force /\ local # None /\ head_ok /\ remote # None
       /\ ETag(remote) = _compute_file_hash(local)
    THEN [local |-> local, attempted |-> FALSE, result |-> "False"]
    ELSE IF get_ok /\ remote # None
    THEN [local |-> [body |-> remote.body], attempted |-> TRUE, result |-> "True"]
    ELSE [local |-> local, attempted |-> TRUE, result |-> "ClientError"]

\* atomic_upload of a new build of the file
Upload ==
    /\ \E body \in Bodies, parts \in 1..MaxParts :
          dl_remote' = [body |-> body, parts |-> parts]
    /\ dl_ret' = [op |-> "upload", prev |-> dl_ret.op]
    /\ UNCHANGED dl_local
    /\ UNCHANGED notDl

\* one call of download_if_needed
DownloadIfNeeded ==
    /\ \E force, head_ok, get_ok \in BOOLEAN :
          \E r \in {download_if_needed(dl_remote, dl_local, force, head_ok, get_ok)} :
              /\ dl_local' = r.local
              /\ dl_ret' = [op |-> IF r.result = "True" THEN "downloaded"
                                   ELSE IF r.result = "False" THEN "cached" ELSE "raised",
                            prev |-> dl_ret.op,
                            force |-> force, head_ok |-> head_ok /\ dl_remote # None,
                            before |-> dl_local, attempted |-> r.attempted,
                            result |-> r.result]
    /\ UNCHANGED dl_remote
    /\ UNCHANGED notDl

\* the local disk is wiped (a new container)
ColdStart ==
    /\ dl_local # None
    /\ dl_local' = None
    /\ dl_ret' = [op |-> "wiped", prev |-> dl_ret.op]
    /\ UNCHANGED dl_remote
    /\ UNCHANGED notDl

NextDownload == Upload \/ DownloadIfNeeded \/ ColdStart

SpecDownload == Init /\ [][NextDownload]_vars

(***************************************************************************)
(* One FaissS3Retriever shared by a thread in search() and a thread in     *)
(* close().  Neither method takes a lock, so the threads interleave        *)
(* between the statements of the two methods.  A dict iterator raises      *)
(* RuntimeError from next() when the size of its dict is no longer the     *)
(* size it was created with; d[key] raises KeyError when the key is gone.  *)
(* snapshot (ghost) is the facade as the loaded check saw it.              *)
(***************************************************************************)
\* the facade is loaded before the threads start
RaceLoad ==
    /\ ~rc_self.loaded /\ rc_search.pc = "idle" /\ rc_close = "idle"
    /\ \E fetched \in {ManifestV1, ManifestV2} :
          \E r \in {load_from_manifest(NewRetriever, fetched, NoFault)} :
              rc_self' = r.self
    /\ UNCHANGED <<rc_search, rc_close>>
    /\ UNCHANGED notRace

\* the search thread ends with an exception
Raised(status) == [rc_search EXCEPT !.pc = "done", !.status = status]

\* if not self.loaded: raise RuntimeError
SearchCheck ==
    /\ rc_search.pc = "idle"
    /\ \E query \in Queries, top_k \in 1..MaxTopK :
          rc_search' = IF NotLoaded(rc_self)
                       THEN [rc_search EXCEPT !.pc = "done", !.status = "NotLoaded",
                                              !.query = query, !.top_k = top_k]
                       ELSE [rc_search EXCEPT !.pc = "embed", !.snapshot = rc_self,
                                              !.query = query, !.top_k = top_k]
    /\ UNCHANGED <<rc_self, rc_close>>
    /\ UNCHANGED notRace

\* query_vector = embed_query(query, self.config)
SearchEmbed ==
    /\ rc_search.pc = "embed"
    /\ rc_search' = [rc_search EXCEPT !.pc = "iter"]
    /\ UNCHANGED <<rc_self, rc_close>>
    /\ UNCHANGED notRace

\* for ... in self.indices.items(): the iterator is made
SearchIter ==
    /\ rc_search.pc = "iter"
    /\ rc_search' = [rc_search EXCEPT !.pc = "next", !.it_size = Len(rc_self.indices),
                                      !.it_pos = 0]
    /\ UNCHANGED <<rc_self, rc_close>>
    /\ UNCHANGED notRace

\* next() of the iterator, and index.search on the index it gave
SearchNext ==
    /\ rc_search.pc = "next"
    /\ rc_search' =
          IF Len(rc_self.indices) # rc_search.it_size THEN Raised("RuntimeError")
          ELSE IF rc_search.it_pos = rc_search.it_size
               THEN [rc_search EXCEPT !.pc = "fuse"]
          ELSE [rc_search EXCEPT !.pc = "id_map", !.it_pos = @ + 1,
                                 !.name = rc_self.indices[rc_search.it_pos + 1].name,
                                 !.index = rc_self.indices[rc_search.it_pos + 1].index]
    /\ UNCHANGED <<rc_self, rc_close>>
    /\ UNCHANGED notRace

\* id_map = self.id_maps[corpus_name]
SearchIdMap ==
    /\ rc_search.pc = "id_map"
    /\ rc_search' =
          IF rc_search.name \notin DOMAIN rc_self.id_maps THEN Raised("KeyError")
          ELSE [rc_search EXCEPT !.pc = "doc_map",
                                 !.id_map = rc_self.id_maps[rc_search.name]]
    /\ UNCHANGED <<rc_self, rc_close>>
    /\ UNCHANGED notRace

\* doc_map = self.doc_maps[corpus_name], the loop over the hits, and
\* ranked_lists.append(corpus_results)
SearchDocMap ==
    /\ rc_search.pc = "doc_map"
    /\ rc_search' =
          IF rc_search.name \notin DOMAIN rc_self.doc_maps THEN Raised("KeyError")
          ELSE [rc_search EXCEPT
                   !.pc = "next",
                   !.lists = Append(@, CorpusResults(<<>>, rc_search.name,
                                                     IndexSearch(rc_search.index,
                                                                 rc_search.query,
                                                                 rc_search.top_k),
                                                     1, rc_search.id_map,
                                                     rc_self.doc_maps[rc_search.name]))]
    /\ UNCHANGED <<rc_self, rc_close>>
    /\ UNCHANGED notRace

\* fused_results = reciprocal_rank_fusion(...); return fused_results
SearchFuse ==
    /\ rc_search.pc = "fuse"
    /\ rc_search' = [rc_search EXCEPT
                        !.pc = "done", !.status = "ok",
                        !.value = reciprocal_rank_fusion(rc_search.lists, ConfigFusionK)]
    /\ UNCHANGED <<rc_self, rc_close>>
    /\ UNCHANGED notRace

\* self.indices.clear()
CloseIndices ==
    /\ rc_close = "idle" /\ rc_self.loaded
    /\ rc_self' = [rc_self EXCEPT !.indices = <<>>]
    /\ rc_close' = "id_maps"
    /\ UNCHANGED rc_search
    /\ UNCHANGED notRace

\* self.id_maps.clear()
CloseIdMaps ==
    /\ rc_close = "id_maps"
    /\ rc_self' = [rc_self EXCEPT !.id_maps = EmptyDict]
    /\ rc_close' = "doc_maps"
    /\ UNCHANGED rc_search
    /\ UNCHANGED notRace

\* self.doc_maps.clear()
CloseDocMaps ==
    /\ rc_close = "doc_maps"
    /\ rc_self' = [rc_self EXCEPT !.doc_maps = EmptyDict]
    /\ rc_close' = "loaded"
    /\ UNCHANGED rc_search
    /\ UNCHANGED notRace

\* self.loaded = False
CloseFlag ==
    /\ rc_close = "loaded"
    /\ rc_self' = [rc_self EXCEPT !.loaded = FALSE]
    /\ rc_close' = "done"
    /\ UNCHANGED rc_search
    /\ UNCHANGED notRace

NextRace ==
    \/ RaceLoad
    \/ SearchCheck \/ SearchEmbed \/ SearchIter \/ SearchNext
    \/ SearchIdMap \/ SearchDocMap \/ SearchFuse
    \/ CloseIndices \/ CloseIdMaps \/ CloseDocMaps \/ CloseFlag

SpecRace == Init /\ [][NextRace]_vars

(***************************************************************************)
(* update_manifest of the PDF and of the SAS indexer (the two copies are   *)
(* the same code).  Each indexer is a process of its own; between its read *)
(* of the manifest, its write of /tmp/manifest.json and its upload the     *)
(* other indexer may run.  The manifest is held as the indexers hold it:   *)
(* corpora is a dict from corpus name to entry.                            *)
(***************************************************************************)
\* try: get_object_json + model_validate / except Exception: a new manifest
ReadOrNew(stored, version, read_ok) ==
    IF read_ok /\ stored # None THEN stored
    ELSE [version |-> version, corpora |-> EmptyDict]

\* manifest.version = version; manifest.corpora[corpus_name] = CorpusEntry(...)
WithEntry(m, corpus_name, version) ==
    [version |-> version,
     corpora |-> Put(m.corpora, corpus_name, [prefix |-> <<corpus_name, version>>])]

\* main() reaches update_manifest
IndexerStart(c) ==
    /\ mf_proc[c].pc = "idle"
    /\ \E h \in Hosts, v \in Versions :
          mf_proc' = [mf_proc EXCEPT ![c] = [@ EXCEPT !.pc = "read", !.host = h,
                                                      !.version = v]]
    /\ UNCHANGED <<mf_stored, mf_tmp>>
    /\ UNCHANGED notMf

\* the manifest is read (or made new) and changed in memory
ReadManifest(c) ==
    /\ mf_proc[c].pc = "read"
    /\ \E read_ok \in BOOLEAN :
          mf_proc' = [mf_proc EXCEPT ![c] =
                         [@ EXCEPT !.pc = "write",
                                   !.manifest = WithEntry(ReadOrNew(mf_stored,
                                                                    mf_proc[c].version,
                                                                    read_ok),
                                                          c, mf_proc[c].version)]]
    /\ UNCHANGED <<mf_stored, mf_tmp>>
    /\ UNCHANGED notMf

\* with open("/tmp/manifest.json", "w") as f: f.write(manifest_json)
WriteTmp(c) ==
    /\ mf_proc[c].pc = "write"
    /\ mf_tmp' = [mf_tmp EXCEPT ![mf_proc[c].host] = mf_proc[c].manifest]
    /\ mf_proc' = [mf_proc EXCEPT ![c] = [@ EXCEPT !.pc = "upload"]]
    /\ UNCHANGED mf_stored
    /\ UNCHANGED notMf

\* atomic_upload(bucket, manifest_key, "/tmp/manifest.json"): upload_file
\* sends what the file holds now, or raises ClientError
UploadManifest(c) ==
    /\ mf_proc[c].pc = "upload"
    /\ \E upload_ok \in BOOLEAN :
          IF upload_ok
          THEN /\ mf_stored' = mf_tmp[mf_proc[c].host]
               /\ mf_proc' = [mf_proc EXCEPT ![c] = [@ EXCEPT !.pc = "done"]]
          ELSE /\ mf_stored' = mf_stored
               /\ mf_proc' = [mf_proc EXCEPT ![c] = [@ EXCEPT !.pc = "raised"]]
    /\ UNCHANGED mf_tmp
    /\ UNCHANGED notMf

NextManifest ==
    \E c \in IndexerCorpora :
        \/ IndexerStart(c)
        \/ ReadManifest(c)
        \/ WriteTmp(c)
        \/ UploadManifest(c)

SpecManifest == Init /\ [][NextManifest]_vars

(***************************************************************************)
(* chunk_text.  A text is a sequence of characters: "a" stands for every   *)
(* character that is neither a break nor white space, "." is the period,   *)
(* "\n" the newline (a break and white space).  Positions count from 0 as  *)
(* in the code; slices take negative bounds the way Python takes them.     *)
(***************************************************************************)
MaxTextLen == 13     \* longest text
MaxBreaks == 2       \* most periods and newlines in a text
MaxTokens == 3       \* largest max_tokens
MaxChunks == 8       \* iterations of the loop that are followed

CharsPerToken == 4

\* the texts of length n with breaks at the positions of P
TextsOver(n, P) ==
    {[i \in 1..n |-> IF i \in P THEN b[i] ELSE "a"] : b \in [P -> {".", "\n"}]}
Texts ==
    UNION {TextsOver(n, P) :
             n \in 0..MaxTextLen,
             P \in {Q \in SUBSET (1..MaxTextLen) : Cardinality(Q) <= MaxBreaks}}

\* a slice bound as Python reads it for a sequence of length n
SliceBound(i, n) == IF i < 0 THEN Max(i + n, 0) ELSE IF i > n THEN n ELSE i

\* t[lo:hi]
Slice(t, lo, hi) ==
    LET a == SliceBound(lo, Len(t))
        b == SliceBound(hi, Len(t))
    IN  IF a >= b THEN <<>> ELSE SubSeq(t, a + 1, b)

\* t.rfind(ch)
rfind(t, ch) ==
    LET P == {i \in 1..Len(t) : t[i] = ch}
    IN  IF P = {} THEN -1 ELSE (CHOOSE i \in P : \A j \in P : j <= i) - 1

\* t.strip()
strip(t) ==
    LET P == {i \in 1..Len(t) : t[i] # "\n"}
    IN  IF P = {} THEN <<>>
        ELSE SubSeq(t, CHOOSE i \in P : \A j \in P : i <= j,
                       CHOOSE i \in P : \A j \in P : j <= i)

\* one pass through the body of the while loop: the chunk appended and the
\* new value of start
LoopBody(text, max_chars, overlap_chars, start) ==
    LET end0 == start + max_chars
        chunk0 == Slice(text, start, end0)
        break_point == Max(rfind(chunk0, "."), rfind(chunk0, "\n"))
        breaks == end0 < Len(text) /\ 2 * break_point > max_chars
        chunk == IF breaks THEN Slice(chunk0, 0, break_point + 1) ELSE chunk0
        end == IF breaks THEN start + break_point + 1 ELSE end0
    IN  [chunk |-> strip(chunk), start |-> end - overlap_chars]

\* the call up to the while loop
ChunkBegin ==
    /\ ck_loc.pc = "idle"
    /\ \E text \in Texts, max_tokens \in 1..MaxTokens :
          \E overlap \in 0..(max_tokens - 1) :
              /\ ck_args' = [text |-> text, max_chars |-> max_tokens * CharsPerToken,
                             overlap_chars |-> overlap * CharsPerToken]
              /\ ck_loc' = [ck_loc EXCEPT !.pc = IF strip(text) = <<>> THEN "done"
                                                 ELSE "loop"]
    /\ UNCHANGED ck_chunks
    /\ UNCHANGED notCk

\* one iteration of the while loop, with the test for the next one
ChunkIterate ==
    /\ ck_loc.pc = "loop"
    /\ Len(ck_chunks) < MaxChunks
    /\ \E b \in {LoopBody(ck_args.text, ck_args.max_chars, ck_args.overlap_chars,
                          ck_loc.start)} :
          /\ ck_chunks' = Append(ck_chunks, b.chunk)
          /\ ck_loc' = [pc |-> IF b.start >= Len(ck_args.text) THEN "done" ELSE "loop",
                        start |-> b.start, prev |-> ck_loc.start,
                        iterations |-> ck_loc.iterations + 1]
    /\ UNCHANGED ck_args
    /\ UNCHANGED notCk

NextChunk == ChunkBegin \/ ChunkIterate

SpecChunk == Init /\ [][NextChunk]_vars

(***************************************************************************)
(* Claims about reciprocal_rank_fusion (checked under SpecFusion).         *)
(* The claims read the fields of the items directly and do their own       *)
(* arithmetic, so that they do not depend on the operators they check.     *)
(***************************************************************************)
CorpusOf(item) == IF "corpus" \in DOMAIN item THEN item.corpus ELSE ""
ChunkOf(item) == IF "chunk_id" \in DOMAIN item THEN item.chunk_id ELSE ""
SameKey(a, b) == CorpusOf(a) = CorpusOf(b) /\ ChunkOf(a) = ChunkOf(b)

\* the <<list, position>> pairs of the input where an item with e's key stands
Occurrences(lists, e) ==
    {p \in UNION {{<<i, j>> : j \in 1..Len(lists[i])} : i \in 1..Len(lists)} :
        SameKey(lists[p[1]][p[2]], e)}

\* the sum of 1/(k + p[2]) over a set of <<list, position>> pairs
RECURSIVE SumRecip(_, _)
SumRecip(ps, k) ==
    IF ps = {} THEN 0
    ELSE LET p == CHOOSE q \in ps : TRUE
         IN  (ScoreDen(k) \div (k + p[2])) + SumRecip(ps \ {p}, k)

\* one pair per list that contains e's key: its first position in that list
FirstOccurrences(lists, e) ==
    {p \in Occurrences(lists, e) :
        \A q \in Occurrences(lists, e) : q[1] = p[1] => p[2] <= q[2]}

\* the first occurrence of e's key in input-list order
FirstOccurrence(lists, e) ==
    CHOOSE p \in Occurrences(lists, e) :
        \A q \in Occurrences(lists, e) :
            p[1] < q[1] \/ (p[1] = q[1] /\ p[2] <= q[2])

InputItems(lists) ==
    UNION {{lists[i][j] : j \in 1..Len(lists[i])} : i \in 1..Len(lists)}

\* C7 as stated: the score of every output entry is the sum, over the lists that
\* contain its key, of 1/(k + rank), rank being the key's position in that list.
C7_PerListScore ==
    (fuse_pc = "done" /\ fuse_k >= 1) =>
        \A n \in 1..Len(fuse_out) :
            fuse_out[n].score = SumRecip(FirstOccurrences(fuse_lists, fuse_out[n]), fuse_k)

\* C7 amended: the score of every output entry is the sum, over every occurrence
\* of its key in the input lists, of 1/(k + rank of that occurrence); a list
\* without the key contributes 0.
C7_PerOccurrenceScore ==
    (fuse_pc = "done" /\ fuse_k >= 1) =>
        \A n \in 1..Len(fuse_out) :
            fuse_out[n].score = SumRecip(Occurrences(fuse_lists, fuse_out[n]), fuse_k)

\* C7 witness: a fused entry whose key stands in two lists at different ranks,
\* next to an entry whose key stands in one list only.
C7_Witness ==
    /\ fuse_pc = "done"
    /\ \E n, m \in 1..Len(fuse_out) :
        /\ \E p, q \in Occurrences(fuse_lists, fuse_out[n]) : p[1] # q[1] /\ p[2] # q[2]
        /\ Cardinality(Occurrences(fuse_lists, fuse_out[m])) = 1

ScoresOfChunk(out, chunk_id) ==
    SelectSeq([n \in 1..Len(out) |-> IF ChunkOf(out[n]) = chunk_id THEN out[n].score ELSE -1],
              LAMBDA s : s >= 0)

\* C10 (test_fusion_multiple_lists): for list1 = [pdf chunk_1, pdf chunk_2] and
\* list2 = [sas chunk_2, sas chunk_1] the output has exactly one entry for
\* chunk_1 and one for chunk_2, and the score of chunk_2 exceeds that of chunk_1.
C10_OneEntryPerChunkId ==
    (fuse_pc = "done" /\ fuse_k = DefaultK
        /\ fuse_lists = <<<<Pdf1, Pdf2>>, <<Sas2, Sas1>>>>) =>
        /\ Len(ScoresOfChunk(fuse_out, "chunk_2")) = 1
        /\ Len(ScoresOfChunk(fuse_out, "chunk_1")) = 1
        /\ ScoresOfChunk(fuse_out, "chunk_2")[1] > ScoresOfChunk(fuse_out, "chunk_1")[1]

\* p stands before q in input order: list order first, then position in the list
Precedes(p, q) == p[1] < q[1] \/ (p[1] = q[1] /\ p[2] < q[2])

\* the keys of one list are pairwise different
DistinctKeys(list) ==
    \A i, j \in 1..Len(list) : SameKey(list[i], list[j]) => i = j

\* C11: the output is ordered by fused score, non-increasing; entries of equal
\* score stand in the order of the first occurrences of their keys in the input
\* (list order, then position); a single list of distinct keys comes back in input
\* order with strictly decreasing scores.
C11_SortedStable ==
    fuse_pc = "done" =>
        /\ \A n, m \in 1..Len(fuse_out) :
              n < m =>
                /\ fuse_out[n].score >= fuse_out[m].score
                /\ fuse_out[n].score = fuse_out[m].score =>
                      Precedes(FirstOccurrence(fuse_lists, fuse_out[n]),
                               FirstOccurrence(fuse_lists, fuse_out[m]))
        /\ (Len(fuse_lists) = 1 /\ DistinctKeys(fuse_lists[1])) =>
              /\ Len(fuse_out) = Len(fuse_lists[1])
              /\ \A i \in 1..Len(fuse_out) : SameKey(fuse_out[i], fuse_lists[1][i])
              /\ \A i, j \in 1..Len(fuse_out) :
                    i < j => fuse_out[i].score > fuse_out[j].score

\* C11 witness: two entries of equal score whose keys come from different lists,
\* below an entry that was not first in the input and has a higher score.
C11_Witness ==
    /\ fuse_pc = "done"
    /\ Len(fuse_lists) = 2
    /\ \E n, m \in 1..Len(fuse_out) :
          /\ n < m
          /\ fuse_out[n].score = fuse_out[m].score
          /\ FirstOccurrence(fuse_lists, fuse_out[n])[1] = 1
          /\ FirstOccurrence(fuse_lists, fuse_out[m])[1] = 2
    /\ FirstOccurrence(fuse_lists, fuse_out[1]) # <<1, 1>>

\* the item stands at rank 1 of every input list (there being at least one)
FirstInEveryList(lists, e) ==
    /\ Len(lists) >= 1
    /\ \A i \in 1..Len(lists) : lists[i] # <<>> /\ SameKey(lists[i][1], e)

\* the lists in which the key of e occurs
ListsOf(lists, e) == {p[1] : p \in Occurrences(lists, e)}

\* e stands at a rank worse than 1 in some list
WorseRankSomewhere(lists, e) == \E p \in Occurrences(lists, e) : p[2] > 1

\* the key of e occurs at most once in each list
OncePerList(lists, e) ==
    \A p, q \in Occurrences(lists, e) : p[1] = q[1] => p[2] = q[2]

\* C12 as stated: an item ranked first in every input list has a fused score at
\* least that of every other output entry, and strictly greater than that of any
\* entry that stands in strictly fewer lists or at a worse rank in some list.
C12_TopEverywhereWins ==
    fuse_pc = "done" =>
        \A n, m \in 1..Len(fuse_out) :
            (n # m /\ FirstInEveryList(fuse_lists, fuse_out[n])) =>
                /\ fuse_out[n].score >= fuse_out[m].score
                /\ (\/ Cardinality(ListsOf(fuse_lists, fuse_out[m]))
                          < Cardinality(ListsOf(fuse_lists, fuse_out[n]))
                    \/ WorseRankSomewhere(fuse_lists, fuse_out[m])) =>
                      fuse_out[n].score > fuse_out[m].score

\* C12 amended: an item ranked first in every input list has a fused score
\* strictly greater than that of every other output entry whose key occurs at
\* most once in each list.
C12_TopEverywhereWinsOverSingles ==
    fuse_pc = "done" =>
        \A n, m \in 1..Len(fuse_out) :
            (n # m /\ FirstInEveryList(fuse_lists, fuse_out[n])
                   /\ OncePerList(fuse_lists, fuse_out[m])) =>
                fuse_out[n].score > fuse_out[m].score

\* C12 witness: one key is first in both of two lists, another key stands once
\* in each of the two lists, behind it.
C12_Witness ==
    /\ fuse_pc = "done"
    /\ Len(fuse_lists) = 2
    /\ \E n, m \in 1..Len(fuse_out) :
          /\ n # m
          /\ FirstInEveryList(fuse_lists, fuse_out[n])
          /\ OncePerList(fuse_lists, fuse_out[m])
          /\ Cardinality(ListsOf(fuse_lists, fuse_out[m])) = 2

\* C14: the fusion of no lists and the fusion of lists that are all empty is the
\* empty list.
C14_EmptyInEmptyOut ==
    (fuse_pc = "done" /\ \A i \in 1..Len(fuse_lists) : fuse_lists[i] = <<>>) =>
        fuse_out = <<>>

\* C14 witness: two empty lists were fused.
C14_Witness ==
    /\ fuse_pc = "done"
    /\ Len(fuse_lists) = 2
    /\ \A i \in 1..Len(fuse_lists) : fuse_lists[i] = <<>>

(***************************************************************************)
(* Claims about the facade (checked under Spec).                           *)
(***************************************************************************)
LastLoadFailed == ret.op = "load" /\ ret.status # "ok"
PrevLoadFailed == hist.prev[1] = "load" /\ hist.prev[2] # "ok"
ManifestCorpora == IF manifest = None THEN {}
                   ELSE {manifest.corpora[i].name : i \in 1..Len(manifest.corpora)}

\* C1: a search issued before any successful load, or after a close that no
\* successful load has followed, raises the not-loaded error and returns nothing.
C1_SearchNeedsLoaded ==
    (ret.op = "search" /\ ~hist.loadedOk) =>
        (ret.status = "NotLoaded" /\ ret.value = <<>>)

\* C1 witness: a search on a facade that was loaded, then closed, and whose
\* load after the close failed after it had put an index in place.
C1_Witness ==
    /\ ret.op = "search"
    /\ hist.closed
    /\ ~hist.loadedOk
    /\ PrevLoadFailed
    /\ indices # <<>>
    /\ corpus_counts # EmptyDict

\* C2 as stated: after a load_from_manifest that fails, loaded = false and the
\* search that follows fails, whatever the state before the call.
C2_FailedLoadLeavesNotLoaded ==
    /\ LastLoadFailed => ~loaded
    /\ (ret.op = "search" /\ PrevLoadFailed) => ret.status # "ok"

\* C3 as stated: a load_from_manifest that fails on corpus number i > 1 leaves
\* the facade as it was before the call (no index, map, count or manifest of
\* the failed attempt).
C3_FailedLoadRestoresState ==
    [][(ret'.op = "load" /\ ret'.status # "ok" /\ ret'.at > 1) => facade' = facade]_vars

\* C4 as stated: whenever loaded = true, every corpus of the current manifest
\* has its index, id map and doc map, and no index is held for a corpus
\* outside the manifest.
C4_LoadedMatchesManifest ==
    loaded =>
        /\ \A c \in ManifestCorpora :
              c \in OrderedKeys(indices) /\ c \in DOMAIN id_maps /\ c \in DOMAIN doc_maps
        /\ OrderedKeys(indices) \subseteq ManifestCorpora

\* C5: after close() the index, id-map and doc-map collections are empty and
\* loaded = false, and a search issued right after close raises not-loaded.
C5_CloseClears ==
    /\ ret.op = "close" =>
          (indices = <<>> /\ id_maps = EmptyDict /\ doc_maps = EmptyDict /\ ~loaded)
    /\ (ret.op = "search" /\ hist.prev[1] = "close") => ret.status = "NotLoaded"

\* C5 witness: a search right after the close of a facade that held both corpora.
C5_Witness ==
    /\ ret.op = "search"
    /\ hist.prev[1] = "close"
    /\ DOMAIN corpus_counts = {"pdf", "sas"}

\* C6 as stated: once close() was called the facade is never Loaded again and
\* no search succeeds.
C6_ClosedIsTerminal ==
    hist.closed => (~loaded /\ ~(ret.op = "search" /\ ret.status = "ok"))

\* C6 amended: after close() the facade is Loaded exactly when a
\* load_from_manifest has succeeded since the last close, and a search succeeds
\* only then; close is not terminal.
C6_LoadedIffReloaded ==
    hist.closed =>
        /\ loaded <=> hist.loadedOk
        /\ (ret.op = "search" /\ ret.status = "ok") => hist.loadedOk

\* C6 witness: a successful search on a facade that was closed and loaded again.
C6_Witness ==
    /\ hist.closed
    /\ loaded
    /\ ret.op = "search"
    /\ ret.status = "ok"
    /\ Len(ret.value) > 0

(***************************************************************************)
(* Claims about search (checked under Spec).                               *)
(***************************************************************************)
\* the chunk ids that the id map of corpus entry n gives for the hits of the
\* index of that entry, nearest first, the hits without a chunk id left out
MappedChunks(n, query, top_k) ==
    LET name == indices[n].name
        idx == indices[n].index
        slots == IF top_k < idx.ntotal THEN top_k ELSE idx.ntotal
        chunk == [i \in 1..slots |->
                     LET a == idx.order[query][i][2]
                     IN  IF name \in DOMAIN id_maps /\ a \in DOMAIN id_maps[name]
                         THEN id_maps[name][a] ELSE ""]
    IN  SelectSeq(chunk, LAMBDA c : c # "")

\* every corpus with an index has its id map and its doc map
MapsPresent ==
    \A n \in 1..Len(indices) :
        indices[n].name \in DOMAIN id_maps /\ indices[n].name \in DOMAIN doc_maps

\* the last call was a search that got its query vector
Searched == ret.op = "search" /\ ret.status # "EmbeddingFailure"

\* C13: when the first corpus returns [chunkA, chunkB] and the second returns
\* [chunkB, chunkC], the result of search has three entries, in the order chunkB,
\* chunkA, chunkC, and the score of chunkB is the sum of its two reciprocal-rank
\* contributions.
C13_SharedChunkFusedOnce ==
    (Searched /\ loaded /\ MapsPresent /\ Len(indices) = 2
        /\ MappedChunks(1, ret.args[1], ret.args[2]) = <<"chunkA", "chunkB">>
        /\ MappedChunks(2, ret.args[1], ret.args[2]) = <<"chunkB", "chunkC">>) =>
        /\ ret.status = "ok"
        /\ [n \in 1..Len(ret.value) |-> ChunkOf(ret.value[n])] = <<"chunkB", "chunkA", "chunkC">>
        /\ ret.value[1].score = SumRecip({<<1, 2>>, <<2, 1>>}, ConfigFusionK)

\* C16: a hit whose ordinal has no entry in the id map of its corpus is left out
\* of the result and raises nothing; every other hit of that corpus and of the
\* other corpora has its entry in the fused result.
C16_UnmappedHitDropped ==
    (Searched /\ loaded /\ MapsPresent) =>
        /\ ret.status = "ok"
        /\ {<<CorpusOf(ret.value[m]), ChunkOf(ret.value[m])>> : m \in 1..Len(ret.value)}
             = UNION {{<<indices[n].name, MappedChunks(n, ret.args[1], ret.args[2])[j]>> :
                          j \in 1..Len(MappedChunks(n, ret.args[1], ret.args[2]))} :
                      n \in 1..Len(indices)}

\* C16 witness: two corpora were searched, the nearest hit of the first one has
\* no chunk id, and the result holds entries of both corpora.
C16_Witness ==
    /\ Searched /\ loaded /\ MapsPresent
    /\ Len(indices) = 2
    /\ indices[1].index.order[ret.args[1]][1][2] \notin DOMAIN id_maps[indices[1].name]
    /\ \E m \in 1..Len(ret.value) : CorpusOf(ret.value[m]) = indices[1].name
    /\ \E m \in 1..Len(ret.value) : CorpusOf(ret.value[m]) = indices[2].name

\* the slots of the answer of index n that hold a vector of the index
RealSlots(n, top_k) ==
    1..(IF top_k < indices[n].index.ntotal THEN top_k ELSE indices[n].index.ntotal)

\* the items that the hits of corpus entry n stand for, nearest first: a hit
\* with a chunk id gives an item, with the text and metadata of its document if
\* it has one
HitItems(n, query, top_k) ==
    LET name == indices[n].name
        idx == indices[n].index
        item == [i \in RealSlots(n, top_k) |->
                    LET a == idx.order[query][i][2]
                    IN  IF a \notin DOMAIN id_maps[name] THEN [dropped |-> TRUE]
                        ELSE LET c == id_maps[name][a]
                             IN  [corpus |-> name, chunk_id |-> c,
                                  score |-> idx.order[query][i][1],
                                  text |-> IF c \in DOMAIN doc_maps[name]
                                           THEN doc_maps[name][c].text ELSE "",
                                  metadata |-> IF c \in DOMAIN doc_maps[name]
                                               THEN doc_maps[name][c].metadata
                                               ELSE EmptyDict]]
    IN  SelectSeq(item, LAMBDA e : "dropped" \notin DOMAIN e)

\* the lists of the corpora that have at least one item
NonEmptyHitLists(query, top_k) ==
    SelectSeq([n \in 1..Len(indices) |-> HitItems(n, query, top_k)],
              LAMBDA l : l # <<>>)

\* the entries of the result that carry the name of corpus entry n
EntriesOf(n) == {m \in 1..Len(ret.value) : CorpusOf(ret.value[m]) = indices[n].name}

\* C21: a corpus without a usable hit does not abort the search; the result is
\* the fusion of the lists of the other corpora, and the empty list when no
\* corpus has a usable hit.
C21_EmptyCorpusListIgnored ==
    (Searched /\ loaded /\ MapsPresent) =>
        /\ ret.status = "ok"
        /\ ret.value = reciprocal_rank_fusion(NonEmptyHitLists(ret.args[1], ret.args[2]),
                                              ConfigFusionK)

\* C21 witness: of two corpora the first has no usable hit and the second has
\* one; the result is not empty.
C21_Witness ==
    /\ Searched /\ loaded /\ MapsPresent
    /\ Len(indices) = 2
    /\ HitItems(1, ret.args[1], ret.args[2]) = <<>>
    /\ HitItems(2, ret.args[1], ret.args[2]) # <<>>
    /\ ret.value # <<>>

\* C22: no entry of the result stems from a slot padded with the ordinal -1, and
\* a corpus has at most min(top_k, number of indexed vectors) entries.
C22_SentinelNeverSurfaced ==
    (Searched /\ loaded /\ MapsPresent) =>
        \A n \in 1..Len(indices) :
            /\ \A m \in EntriesOf(n) :
                  \E a \in 0..(indices[n].index.ntotal - 1) :
                      /\ a \in DOMAIN id_maps[indices[n].name]
                      /\ id_maps[indices[n].name][a] = ChunkOf(ret.value[m])
            /\ Cardinality(EntriesOf(n)) <= Cardinality(RealSlots(n, ret.args[2]))

\* C22 witness: a corpus with fewer vectors than top_k, whose id map has an
\* entry for the ordinal -1, has entries in the result.
C22_Witness ==
    /\ Searched /\ loaded /\ MapsPresent /\ ret.status = "ok"
    /\ \E n \in 1..Len(indices) :
          /\ ret.args[2] > indices[n].index.ntotal
          /\ -1 \in DOMAIN id_maps[indices[n].name]
          /\ EntriesOf(n) # {}

\* C23: a hit whose chunk id has no entry in the doc map of its corpus is in the
\* result with empty text and empty metadata, scored by its rank in the list of
\* its corpus.
C23_MissingDocEmptyText ==
    (Searched /\ loaded /\ MapsPresent) =>
        /\ ret.status = "ok"
        /\ \A n \in 1..Len(indices) :
              \A j \in 1..Len(MappedChunks(n, ret.args[1], ret.args[2])) :
                  LET c == MappedChunks(n, ret.args[1], ret.args[2])[j]
                      ranks == {i \in 1..Len(MappedChunks(n, ret.args[1], ret.args[2])) :
                                   MappedChunks(n, ret.args[1], ret.args[2])[i] = c}
                  IN  c \notin DOMAIN doc_maps[indices[n].name] =>
                          \E m \in EntriesOf(n) :
                              /\ ChunkOf(ret.value[m]) = c
                              /\ ret.value[m].text = ""
                              /\ ret.value[m].metadata = EmptyDict
                              /\ ret.value[m].score = SumRecip({<<n, i>> : i \in ranks},
                                                               ConfigFusionK)

\* C23 witness: the second hit of a corpus has a chunk id without a document and
\* its entry is in the result.
C23_Witness ==
    /\ Searched /\ loaded /\ MapsPresent /\ ret.status = "ok"
    /\ \E n \in 1..Len(indices) :
          /\ Len(MappedChunks(n, ret.args[1], ret.args[2])) >= 2
          /\ MappedChunks(n, ret.args[1], ret.args[2])[2] \notin DOMAIN doc_maps[indices[n].name]
          /\ \E m \in EntriesOf(n) :
                ChunkOf(ret.value[m]) = MappedChunks(n, ret.args[1], ret.args[2])[2]

\* C18: a search on a loaded facade leaves the manifest, the indices, the id
\* maps, the doc maps, the corpus counts and the loaded flag as they were,
\* whether it returns or fails.
C18_SearchReadOnly ==
    [][(loaded /\ ret'.op = "search") => facade' = facade]_vars

\* C18 witness: on a loaded facade a search that failed was followed by a search
\* that returned entries.
C18_Witness ==
    /\ ret.op = "search" /\ ret.status = "ok" /\ ret.value # <<>>
    /\ loaded
    /\ hist.prev = <<"search", "EmbeddingFailure">>

\* C20: a search with the empty query string on a loaded facade returns the
\* empty list and does not raise.
C20_EmptyQueryEmptyResult ==
    (Searched /\ loaded /\ MapsPresent /\ ret.args[1] = "") =>
        ret.status = "ok" /\ ret.value = <<>>

C19_NoDocumentsOnlyFromEmptySearch ==
    resp.handler = "chat" =>
        /\ (resp.r.code = 200 /\ resp.r.citations = 0) =>
              /\ retriever # None /\ retriever.loaded
              /\ resp.r.searched = [status |-> "ok", value |-> <<>>]
        /\ (retriever = None \/ ~retriever.loaded \/ resp.raised) =>
              resp.r.code \in {500, 503}

\* C19 witness: chat answered "no documents" on a loaded retriever after an
\* earlier request whose initialisation failed.
C19_Witness ==
    /\ resp.handler = "chat"
    /\ resp.r.kind = "no_documents"
    /\ retriever # None /\ retriever.loaded
    /\ calls.loads > calls.okLoads

(***************************************************************************)
(* Claims about the jsonl files (checked under SpecParse).                 *)
(***************************************************************************)
\* a line of ids.jsonl that is an object with an integer ann_id and an id
WellFormedIdLine(line) ==
    /\ line.kind = "obj"
    /\ "ann_id" \in DOMAIN line.obj
    /\ "num" \in DOMAIN line.obj.ann_id
    /\ "id" \in DOMAIN line.obj

\* a line of docs.jsonl that is an object with an id
WellFormedDocLine(line) == line.kind = "obj" /\ "id" \in DOMAIN line.obj

\* the last of the lines numbered in `among` for which Key gives key
LastLine(lines, among, Key(_), key) ==
    CHOOSE i \in among :
        /\ Key(lines[i]) = key
        /\ \A j \in among : Key(lines[j]) = key => j <= i

\* the id map made of exactly the well-formed lines, a later line overriding
\* an earlier one with the same ann_id
ExpectedIdMap(lines) ==
    LET wf == {i \in 1..Len(lines) : WellFormedIdLine(lines[i])}
        AnnOf(line) == line.obj.ann_id.num
    IN  [a \in {AnnOf(lines[i]) : i \in wf} |-> lines[LastLine(lines, wf, AnnOf, a)].obj.id]

\* the doc map made of exactly the well-formed lines
ExpectedDocMap(lines) ==
    LET wf == {i \in 1..Len(lines) : WellFormedDocLine(lines[i])}
        IdOf(line) == line.obj.id
    IN  [c \in {IdOf(lines[i]) : i \in wf} |->
            LET o == lines[LastLine(lines, wf, IdOf, c)].obj
            IN  [text |-> IF "text" \in DOMAIN o THEN o.text ELSE "",
                 metadata |-> IF "metadata" \in DOMAIN o THEN o.metadata ELSE EmptyDict]]

\* C24: no line of ids.jsonl or docs.jsonl aborts the load; the id map and the
\* doc map hold exactly the entries of the well-formed lines.
C24_BadRecordsSkipped ==
    /\ parse_pc = "ids" =>
          /\ parse_out.status = "ok"
          /\ parse_out.self.id_maps["pdf"] = ExpectedIdMap(parse_lines)
    /\ parse_pc = "docs" =>
          /\ parse_out.status = "ok"
          /\ parse_out.self.doc_maps["pdf"] = ExpectedDocMap(parse_lines)

(***************************************************************************)
(* Claims about download_if_needed (checked under SpecDownload).           *)
(***************************************************************************)
Called == dl_ret.op \in {"downloaded", "cached", "raised"}

\* C25: the call transfers the object exactly when force is set, the local file
\* is absent, the identifier check fails or the remote identifier differs from
\* the hash of the local file, and otherwise returns False; so a call right
\* after a successful one, the remote object unchanged, transfers nothing and
\* returns False.
C25_TransferOnlyWhenNeeded ==
    /\ Called =>
          /\ dl_ret.attempted <=>
                \/ dl_ret.force
                \/ dl_ret.before = None
                \/ ~dl_ret.head_ok
                \/ ETag(dl_remote) # Md5(dl_ret.before.body)
          /\ ~dl_ret.attempted => dl_ret.result = "False"
    /\ (Called /\ dl_ret.prev = "downloaded" /\ ~dl_ret.force /\ dl_ret.head_ok) =>
          ~dl_ret.attempted /\ dl_ret.result = "False"

(***************************************************************************)
(* Claims about close() running next to search() (checked under SpecRace). *)
(***************************************************************************)
\* C26: a search that passed its loaded check and runs next to close() either
\* returns what it returns on the loaded facade or fails with the not-loaded
\* error.
C26_SearchAllOrNotLoaded ==
    (rc_search.pc = "done" /\ rc_search.snapshot # None) =>
        \/ /\ rc_search.status = "ok"
           /\ rc_search.value =
                 search(rc_search.snapshot, rc_search.query, rc_search.top_k, TRUE).value
        \/ rc_search.status = "NotLoaded"

(***************************************************************************)
(* Claims about the indexers' manifest update (checked under SpecManifest).*)
(***************************************************************************)
\* C27: once the PDF indexer and the SAS indexer have both completed
\* update_manifest on the manifest key, the stored manifest has the pdf and
\* the sas corpus entry.
C27_NoCorpusEntryLost ==
    (\A c \in IndexerCorpora : mf_proc[c].pc = "done") =>
        /\ mf_stored # None
        /\ IndexerCorpora \subseteq DOMAIN mf_stored.corpora

(***************************************************************************)
(* Claims about the retry of the lazy initialization (checked under        *)
(* SpecServer).                                                            *)
(***************************************************************************)
\* a step that is a request to chat or get_status
IsRequest == calls'.requests = calls.requests + 1

\* C28: a request whose _ensure_initialized raises leaves _initialized False,
\* and if it is a chat request it is answered without a search; a request
\* that finds _initialized False and a bucket configured runs a fresh load;
\* a chat request is answered from a search only with a loaded retriever
\* whose initialization succeeded; a request that finds _initialized True
\* runs no load and leaves _initialized and the retriever as they are.
C28_FailedInitRetriedSuccessFinal ==
    [][IsRequest =>
          /\ resp'.raised =>
                /\ ~_initialized'
                /\ resp'.r.searched = NoSearch
                /\ resp'.handler = "chat" => resp'.r.kind = "init_failed"
                /\ calls'.loads = calls.loads + 1 => ~retriever'.loaded
          /\ (~_initialized /\ rag_bucket) => calls'.loads = calls.loads + 1
          /\ resp'.r.searched # NoSearch =>
                _initialized' /\ retriever'.loaded /\ ~resp'.raised
          /\ _initialized =>
                /\ calls'.loads = calls.loads
                /\ ~resp'.raised
                /\ _initialized' /\ retriever' = retriever]_vars

\* a failed load, then a successful one, then a chat request answered from
\* a search without loading
C28_Witness ==
    /\ calls.requests = 3 /\ calls.loads = 2 /\ calls.okLoads = 1
    /\ _initialized
    /\ resp.handler = "chat" /\ resp.r.kind = "answer"

(***************************************************************************)
(* Claims about chunk_text (checked under SpecChunk).                      *)
(***************************************************************************)
\* C29: with max_tokens >= 1 and 0 <= overlap < max_tokens, every iteration
\* of the loop of chunk_text leaves start larger than it found it.
C29_StartStrictlyIncreases ==
    ck_loc.iterations > 0 => ck_loc.start > ck_loc.prev

(***************************************************************************)
(* Claims about the inputs of the fusion (checked under SpecFusion).       *)
(***************************************************************************)
\* C30: a call of reciprocal_rank_fusion leaves every input list with the
\* same items in the same order, and every input item with the same fields
\* and the same score.
C30_InputsNotModified ==
    [][(fuse_pc = "call" /\ fuse_pc' = "done") => fuse_lists' = fuse_lists]_vars

\* a call made with an item that has a score of its own, and one without a
\* score field, whose entries in the output have the fused score
C30_Witness ==
    /\ fuse_pc = "done"
    /\ \E i \in 1..Len(fuse_lists) : \E j \in 1..Len(fuse_lists[i]) :
          /\ "score" \in DOMAIN fuse_lists[i][j]
          /\ \E n \in 1..Len(fuse_out) :
                /\ KeyOf(fuse_out[n]) = KeyOf(fuse_lists[i][j])
                /\ fuse_out[n].score # fuse_lists[i][j].score
    /\ \E i \in 1..Len(fuse_lists) : \E j \in 1..Len(fuse_lists[i]) :
          "score" \notin DOMAIN fuse_lists[i][j]

====
